---- MODULE Spec2Model ----
(***************************************************************************)
(* Model of gtp_connection.py: the time-bounded driver Minimax, the        *)
(* mutually recursive provers MinimaxBooleanOR / MinimaxBooleanAND, the    *)
(* global snapshot stack (save_board / undo), the global TIME_LIMIT and    *)
(* the GTP commands that use them.                                         *)
(*                                                                         *)
(* Board objects live in a heap (a function of object identity),           *)
(* so that `board = undo()` rebinding a local name and                     *)
(* `board.play_move_gomoku` mutating an object are distinguished.          *)
(* The recursion is an explicit sequence of frames; the last frame is the  *)
(* running one.                                                            *)
(***************************************************************************)
EXTENDS Integers, Sequences, FiniteSets, TLC

VARIABLES
    heap,        \* live board objects: heap[id] = [cells, current_player]
    stack,       \* the global list `stack` of snapshot ids
    debug,       \* the global list `debug`: entries "Stored board" minus entries "Undid board"
    TIME_LIMIT,  \* the global TIME_LIMIT
    frames,      \* active calls of Minimax / MinimaxBooleanOR / MinimaxBooleanAND
    ret,         \* value returned by the call that finished last
    elapsed,     \* time.time() - start_time at the last reading of the clock
    evalTab,     \* verdicts the evaluator has given so far (deterministic evaluator)
    oracle,      \* the call of StatisticallyEvaluate just made: position, argument, verdict, caller
    entry,       \* globals as they were when the running Minimax call was entered
    cands,       \* summary of the results Minimax received for the candidates tried so far
    selfBoard,   \* GtpConnection.board (an object id)
    cmd,         \* the command being executed, or "idle"
    ncmds,       \* number of commands received
    out,         \* responses written by the last command: how many, and the last one
    done         \* the search command that has just finished: what Minimax was given and
                 \* returned; kept while a solve directly follows a solve, dropped when
                 \* any other command begins

vars == <<heap, stack, debug, TIME_LIMIT, frames, ret, elapsed, evalTab, oracle,
          entry, cands, selfBoard, cmd, ncmds, out, done>>

----------------------------------------------------------------------------
(* Bounds *)
MaxCells == 3      \* points of the boards handed to a single Minimax call
GtpCells == 2      \* points of the front end's board
MaxDepth == 2      \* depths handed to a single Minimax call
MaxScore == 2      \* largest score the evaluator returns
MaxTime == 1       \* largest clock reading and largest budget
MaxCmds == 3       \* commands received by the front end

(* Constants of the program and of board_util *)
EMPTY == 0
BLACK == 1
WHITE == 2
None == -1
PASS == None
WinLength == 2
DefaultTimeLimit == 1
SolveDepth == 2
WorstInit == 10000
(* lines 21-22 give 9223372036854775807, beyond the integers of TLC; alpha and
   beta are only compared with scores, which stay below these values *)
INFINITY == 2147483647
NINFINITY == -2147483647

NoWinFound == 0
Draw == 1
Win == 2
Timeout == 4

Colors == {BLACK, WHITE}
Scores == (-1)..MaxScore
Verdicts == [win : BOOLEAN, col : Colors, points : Scores]
DetVerdicts == {v \in [win : BOOLEAN, col : Colors, points : 0..1] :
                    v.points = IF v.win THEN 1 ELSE 0}
NoRet == [kind |-> "none"]
NoEntry == [stack |-> <<>>, debug |-> 0, heap |-> <<>>,
            board |-> [cells |-> <<>>, current_player |-> BLACK],
            depth |-> 0, color |-> BLACK, moves |-> <<>>, limit |-> 0]
NoOracle == [board |-> [cells |-> <<>>, current_player |-> BLACK],
             arg |-> "none", verdict |-> [win |-> FALSE, col |-> BLACK, points |-> 0],
             fn |-> "none", depth |-> 0]
NoDone == [cmd |-> "none", board |-> [cells |-> <<>>, current_player |-> BLACK],
           color |-> BLACK, limit |-> 0, is_win |-> 0, move |-> None,
           asked |-> FALSE, got |-> None, used |-> None, again |-> FALSE]
NoOut == [n |-> 0, text |-> "", move |-> None]

(* What Minimax has done and been handed so far, kept for stating properties
   of its result:
     checks, started, tried   readings of the clock, candidates a snapshot was
                              pushed for, candidates whose result was received
     wins, anyOwnWin          the number of results that had win set, counted
                              up to 2; some result had win set and named the
                              mover's colour
     firstZero, zeros         the first move whose result had points 0; the
                              number of such moves, counted up to 2
     top, topPoints, ties     the earliest move among the results with win set
                              that carry the largest points, those points, and
                              how many results with win set carry them (up to 2)
     bestWin, bestOwn         whether the result for the move now held in
                              best_move had win set, and named the mover's colour *)
NoCands == [checks |-> 0, started |-> 0, tried |-> 0, wins |-> 0,
            anyOwnWin |-> FALSE, firstZero |-> None, zeros |-> 0,
            top |-> None, topPoints |-> 0, ties |-> 0,
            bestWin |-> FALSE, bestOwn |-> FALSE]
Observe(c, color, move, win, col, points, recorded) ==
    LET higher == win /\ (c.top = None \/ points > c.topPoints)
        equal == win /\ c.top # None /\ points = c.topPoints
    IN  [checks |-> c.checks, started |-> c.started,
         tried |-> c.tried + 1,
         wins |-> IF win /\ c.wins < 2 THEN c.wins + 1 ELSE c.wins,
         anyOwnWin |-> c.anyOwnWin \/ (win /\ col = color),
         firstZero |-> IF points = 0 /\ c.firstZero = None THEN move ELSE c.firstZero,
         zeros |-> IF points = 0 /\ c.zeros < 2 THEN c.zeros + 1 ELSE c.zeros,
         top |-> IF higher THEN move ELSE c.top,
         topPoints |-> IF higher THEN points ELSE c.topPoints,
         ties |-> IF higher THEN 1
                  ELSE IF equal /\ c.ties < 2 THEN c.ties + 1 ELSE c.ties,
         bestWin |-> IF recorded THEN win ELSE c.bestWin,
         bestOwn |-> IF recorded THEN col = color ELSE c.bestOwn]

----------------------------------------------------------------------------
(* Helpers on sequences *)
Last(s) == s[Len(s)]
Front(s) == SubSeq(s, 1, Len(s) - 1)

RECURSIVE SelectIdx(_, _, _)
SelectIdx(cells, i, want) ==
    IF i > Len(cells) THEN <<>>
    ELSE IF cells[i] = want THEN <<i>> \o SelectIdx(cells, i + 1, want)
    ELSE SelectIdx(cells, i + 1, want)

(* board_util / board collaborators *)
opposite_color(color) ==
    IF color = BLACK THEN WHITE
    ELSE IF color = WHITE THEN BLACK
    ELSE None

generate_legal_moves_gomoku(b) == SelectIdx(b.cells, 1, EMPTY)

RunAt(cells, i) ==
    /\ i + WinLength - 1 <= Len(cells)
    /\ cells[i] # EMPTY
    /\ \A k \in 0..(WinLength - 1) : cells[i + k] = cells[i]

check_game_end_gomoku(b) ==
    LET starts == {i \in 1..Len(b.cells) : RunAt(b.cells, i)}
    IN  IF starts = {} THEN <<FALSE, None>>
        ELSE LET first == CHOOSE i \in starts : \A j \in starts : i <= j
             IN  <<TRUE, b.cells[first]>>

play_move_gomoku(b, move, color) ==
    IF move \in 1..Len(b.cells) /\ b.cells[move] = EMPTY
    THEN [cells |-> [b.cells EXCEPT ![move] = color],
          current_player |-> opposite_color(color)]
    ELSE b

is_legal_gomoku(b, move, color) ==
    move \in 1..Len(b.cells) /\ b.cells[move] = EMPTY

Boards(n) == [cells : [1..n -> {EMPTY, BLACK, WHITE}], current_player : Colors]

----------------------------------------------------------------------------
(* Frames.  Besides the locals of the call a frame keeps, for stating
   properties of the node:
     start          the contents of its board when the call was entered
     snap           the snapshot save_board pushed for the candidate being explored
     hi, won        of an OR node, over the candidates whose result it has
                    received: the largest score, and whether some result was
                    a win, both taken from the node's point of view
     lo             of an AND node, over those candidates: the least score,
                    taken from the node's point of view *)
NoBoard == [cells |-> <<>>, current_player |-> BLACK]
NewFrame(fn, b, depth, color, alpha, beta) ==
    [fn |-> fn, board |-> b, depth |-> depth, color |-> color,
     moves |-> <<>>, i |-> 1, pc |-> "entry",
     best_points |-> 0, best_move |-> None,
     is_win |-> 0,
     proved |-> FALSE,
     worst_points |-> WorstInit, alpha |-> alpha, beta |-> beta,
     start |-> NoBoard, snap |-> 0, lo |-> 0, hi |-> 0, won |-> FALSE]

(* the frame g, which has received the result (win, points) of the candidate
   that frame f was exploring *)
Seen(f, g, win, points) ==
    IF f.fn = "OR"
    THEN [g EXCEPT !.hi = IF f.i = 1 \/ points > f.hi THEN points ELSE f.hi,
                   !.won = f.won \/ win]
    ELSE [g EXCEPT !.lo = IF f.i = 1 \/ points < f.lo THEN points ELSE f.lo]

Running == frames # <<>>
Top == Last(frames)
Move(f) == f.moves[f.i]

(* a return statement of the running call *)
Return(v) ==
    /\ frames' = Front(frames)
    /\ ret' = v

(* replace the running frame *)
Continue(f) ==
    /\ frames' = [frames EXCEPT ![Len(frames)] = f]

(* board.copy(): a new object; identities of collected objects are reused *)
NewId(h) == CHOOSE n \in 1..(Cardinality(DOMAIN h) + 1) :
                /\ n \notin DOMAIN h
                /\ \A m \in 1..(n - 1) : m \in DOMAIN h
Copy(h, b) == (NewId(h) :> h[b]) @@ h

(* objects no name, frame or stack entry refers to any more are collected *)
Refs(st, fr, sb) ==
    {st[k] : k \in 1..Len(st)} \cup {fr[k].board : k \in 1..Len(fr)} \cup {sb}
Collect(h, st, fr, sb) == [id \in DOMAIN h \cap Refs(st, fr, sb) |-> h[id]]

(* save_board(board): copy, append to stack, log *)
SavedHeap(b) == Copy(heap, b)

(* SavedStack putting the copy under the entries already there *)
SavedStackFront == <<NewId(heap)>> \o stack

SavedStack == Append(stack, NewId(heap))

Tuple(win, col, points) == [kind |-> "tuple", win |-> win, col |-> col, points |-> points]
Pair(is_win, move) == [kind |-> "pair", is_win |-> is_win, move |-> move]

(* undo(): log, then stack.pop(); on an empty list pop() raises IndexError *)
CanUndo == stack # <<>>
Raise ==
    /\ frames' = <<>>
    /\ ret' = [kind |-> "error"]
    /\ stack' = stack
    /\ debug' = debug - 1

(* board.StatisticallyEvaluate(...) as the return value of the running call.
   arg is "False" for StatisticallyEvaluate(False) and "default" for
   StatisticallyEvaluate().  V is the set of verdicts the evaluator can give.
   With det the evaluator is a function of the position and the argument;
   without det nothing is assumed of it. *)
StatisticallyEvaluate(arg, V, det) ==
    LET key == <<heap[Top.board], arg>>
    IN  \E v \in V :
            /\ (det /\ key \in DOMAIN evalTab) => v = evalTab[key]
            /\ evalTab' = IF det /\ key \notin DOMAIN evalTab
                          THEN (key :> v) @@ evalTab ELSE evalTab
            /\ oracle' = [board |-> key[1], arg |-> arg, verdict |-> v,
                          fn |-> Top.fn, depth |-> Top.depth]
            /\ Return(Tuple(v.win, v.col, v.points))

(* Descend playing the move before the board is saved *)
DescendPlayFirst(child) ==
    LET f == Top
        b == f.board
        played == play_move_gomoku(heap[b], Move(f), f.color)
    IN  /\ heap' = (NewId(heap) :> played) @@ [heap EXCEPT ![b] = played]
        /\ stack' = SavedStack
        /\ debug' = debug + 1
        /\ frames' = Append([frames EXCEPT ![Len(frames)].pc = "wait",
                                           ![Len(frames)].snap = NewId(heap)],
                            NewFrame(child, b, f.depth - 1, opposite_color(f.color),
                                     f.alpha, f.beta))
        /\ ret' = NoRet

(* the shared part of a loop body: save_board(board); board.play_move_gomoku(move, color);
   call child(board, depth-1, opposite_color(color), alpha, beta) *)
Descend(child) ==
    LET f == Top
        b == f.board
    IN  /\ heap' = [SavedHeap(b) EXCEPT ![b] = play_move_gomoku(heap[b], Move(f), f.color)]
        /\ stack' = SavedStack
        /\ debug' = debug + 1
        /\ frames' = Append([frames EXCEPT ![Len(frames)].pc = "wait",
                                           ![Len(frames)].snap = NewId(heap)],
                            NewFrame(child, b, f.depth - 1, opposite_color(f.color),
                                     f.alpha, f.beta))
        /\ ret' = NoRet

FrontEnd == <<selfBoard, cmd, ncmds, out, done>>

----------------------------------------------------------------------------
(* AlreadyLost looking for a win of the colour to move *)
AlreadyLostOwn(ge, color) == ge[1] = TRUE /\ ge[2] = color

(* Minimax, lines 524-528: the opposite colour has already won *)
AlreadyLost(ge, color) == ge[1] = TRUE /\ ge[2] = opposite_color(color)

(* Minimax, lines 514-529 *)
MinimaxStart ==
    /\ Running /\ Top.fn = "Minimax" /\ Top.pc = "entry"
    /\ LET f == Top
           b == heap[f.board]
           moves == generate_legal_moves_gomoku(b)
           ge == check_game_end_gomoku(b)
       IN  /\ elapsed' = 0
           /\ entry' = [stack |-> stack, debug |-> debug, heap |-> heap,
                        board |-> b, depth |-> f.depth, color |-> f.color,
                        moves |-> moves, limit |-> TIME_LIMIT]
           /\ cands' = NoCands
           /\ IF AlreadyLost(ge, f.color)
              THEN Return(Pair(NoWinFound, None))
              ELSE /\ Continue([f EXCEPT !.moves = moves, !.pc = "loop", !.start = b])
                   /\ ret' = NoRet
    /\ UNCHANGED <<stack, debug, TIME_LIMIT, evalTab, FrontEnd>>
    /\ oracle' = NoOracle
    /\ heap' = Collect(heap, stack', frames', selfBoard')

(* Expired with a strict comparison *)
ExpiredStrict(time_elapsed) == time_elapsed > TIME_LIMIT

(* Minimax, line 533 *)
Expired(time_elapsed) == time_elapsed >= TIME_LIMIT

(* TimeoutResult handing out what the loop has recorded so far *)
TimeoutResultPartial(f) == Pair(f.is_win, f.best_move)

(* Minimax, line 534 *)
TimeoutResult(f) == Pair(Timeout, None)

(* Minimax, lines 531-534: the clock is read and the budget is exhausted *)
MinimaxTimeout ==
    /\ Running /\ Top.fn = "Minimax" /\ Top.pc = "loop" /\ Top.i <= Len(Top.moves)
    /\ \E now \in elapsed..MaxTime :
          /\ Expired(now)
          /\ elapsed' = now
    /\ Return(TimeoutResult(Top))
    /\ cands' = [cands EXCEPT !.checks = @ + 1]
    /\ UNCHANGED <<stack, debug, TIME_LIMIT, evalTab, entry, FrontEnd>>
    /\ oracle' = NoOracle
    /\ heap' = Collect(heap, stack', frames', selfBoard')

(* Minimax, lines 531-539: the clock is read, the budget is not exhausted *)
MinimaxTry ==
    /\ Running /\ Top.fn = "Minimax" /\ Top.pc = "loop" /\ Top.i <= Len(Top.moves)
    /\ \E now \in elapsed..MaxTime :
          /\ ~Expired(now)
          /\ elapsed' = now
    /\ Descend("AND")
    /\ cands' = [cands EXCEPT !.checks = @ + 1, !.started = @ + 1]
    /\ UNCHANGED <<TIME_LIMIT, evalTab, entry, FrontEnd>>
    /\ oracle' = NoOracle

(* Minimax, lines 547-558 *)
MinimaxRecord(f, win, points) ==
    LET better == win /\ points > f.best_points
        f1 == IF better
              THEN [f EXCEPT !.is_win = Win, !.best_move = Move(f),
                             !.best_points = points, !.alpha = points]
              ELSE f
    IN  IF f1.is_win # Win /\ points = 0
        THEN [f1 EXCEPT !.is_win = Draw, !.best_move = Move(f)]
        ELSE f1

MinimaxScore ==
    /\ Running /\ Top.fn = "Minimax" /\ Top.pc = "wait" /\ ret.kind = "tuple"
    /\ LET f == Top
           f2 == MinimaxRecord(f, ret.win, ret.points)
       IN  /\ cands' = Observe(cands, f.color, Move(f), ret.win, ret.col, ret.points,
                                f2.best_move = Move(f))
           /\ IF CanUndo
              THEN /\ Continue([f2 EXCEPT !.board = Last(stack), !.i = f.i + 1,
                                          !.pc = "loop"])
                   /\ stack' = Front(stack)
                   /\ debug' = debug - 1
                   /\ ret' = NoRet
              ELSE Raise
    /\ UNCHANGED <<TIME_LIMIT, elapsed, evalTab, entry, FrontEnd>>
    /\ oracle' = NoOracle
    /\ heap' = Collect(heap, stack', frames', selfBoard')

(* Minimax, line 560 *)
MinimaxReturn ==
    /\ Running /\ Top.fn = "Minimax" /\ Top.pc = "loop" /\ Top.i > Len(Top.moves)
    /\ Return(Pair(Top.is_win, Top.best_move))
    /\ UNCHANGED <<stack, debug, TIME_LIMIT, elapsed, evalTab, entry,
                   cands, FrontEnd>>
    /\ oracle' = NoOracle
    /\ heap' = Collect(heap, stack', frames', selfBoard')

----------------------------------------------------------------------------
(* BaseCase testing the depth before the moves *)
BaseCaseDepthFirst(f, moves, V, det) ==
    IF f.depth = 0
    THEN StatisticallyEvaluate("default", V, det)
    ELSE StatisticallyEvaluate("False", V, det)

(* base case shared by the two provers, lines 573-577 and 611-615 *)
BaseCase(f, moves, V, det) ==
    IF Len(moves) = 0
    THEN StatisticallyEvaluate("False", V, det)
    ELSE StatisticallyEvaluate("default", V, det)

(* MinimaxBooleanOR, lines 564-577 *)
ORStart(V, det) ==
    /\ Running /\ Top.fn = "OR" /\ Top.pc = "entry"
    /\ LET f == Top
           moves == generate_legal_moves_gomoku(heap[f.board])
       IN  IF f.depth = 0 \/ Len(moves) = 0
           THEN BaseCase(f, moves, V, det)
           ELSE /\ Continue([f EXCEPT !.moves = moves, !.pc = "loop",
                                       !.start = heap[f.board]])
                /\ ret' = NoRet
                /\ UNCHANGED evalTab
                /\ oracle' = NoOracle
    /\ UNCHANGED <<stack, debug, TIME_LIMIT, elapsed, entry, cands, FrontEnd>>
    /\ heap' = Collect(heap, stack', frames', selfBoard')

(* MinimaxBooleanOR, lines 580-584 *)
ORTry ==
    /\ Running /\ Top.fn = "OR" /\ Top.pc = "loop" /\ Top.i <= Len(Top.moves)
    /\ Descend("AND")
    /\ UNCHANGED <<TIME_LIMIT, elapsed, evalTab, entry, cands, FrontEnd>>
    /\ oracle' = NoOracle

(* MinimaxBooleanOR, lines 586-600 *)
ORRecord(f, win0, col, points0) ==
    LET win == IF col # f.color THEN FALSE ELSE win0
        points == IF col # f.color THEN 0 - points0 ELSE points0
        best == IF points > f.best_points THEN points ELSE f.best_points
    IN  [f EXCEPT !.proved = IF win THEN TRUE ELSE f.proved,
                  !.best_points = best,
                  !.alpha = IF best >= f.alpha THEN best ELSE f.alpha]

ORScore ==
    /\ Running /\ Top.fn = "OR" /\ Top.pc = "wait" /\ ret.kind = "tuple"
    /\ LET f == Top
           own == ret.col = f.color
           f2 == Seen(f, ORRecord(f, ret.win, ret.col, ret.points),
                      own /\ ret.win, IF own THEN ret.points ELSE 0 - ret.points)
       IN  IF CanUndo
           THEN /\ Continue([f2 EXCEPT !.board = Last(stack), !.i = f.i + 1,
                                       !.pc = "loop"])
                /\ stack' = Front(stack)
                /\ debug' = debug - 1
                /\ ret' = NoRet
           ELSE Raise
    /\ UNCHANGED <<TIME_LIMIT, elapsed, evalTab, entry, cands, FrontEnd>>
    /\ oracle' = NoOracle
    /\ heap' = Collect(heap, stack', frames', selfBoard')

(* ORReturn leaving the loop as soon as a win is proved *)
ORReturnEarly ==
    /\ Running /\ Top.fn = "OR" /\ Top.pc = "loop"
    /\ (Top.i > Len(Top.moves) \/ Top.proved)
    /\ Return(Tuple(Top.proved, Top.color, Top.best_points))
    /\ UNCHANGED <<stack, debug, TIME_LIMIT, elapsed, evalTab, entry,
                   cands, FrontEnd>>
    /\ oracle' = NoOracle
    /\ heap' = Collect(heap, stack', frames', selfBoard')

(* MinimaxBooleanOR, line 605 *)
ORReturn ==
    /\ Running /\ Top.fn = "OR" /\ Top.pc = "loop" /\ Top.i > Len(Top.moves)
    /\ Return(Tuple(Top.proved, Top.color, Top.best_points))
    /\ UNCHANGED <<stack, debug, TIME_LIMIT, elapsed, evalTab, entry,
                   cands, FrontEnd>>
    /\ oracle' = NoOracle
    /\ heap' = Collect(heap, stack', frames', selfBoard')

----------------------------------------------------------------------------
(* MinimaxBooleanAND, lines 607-615 *)
ANDStart(V, det) ==
    /\ Running /\ Top.fn = "AND" /\ Top.pc = "entry"
    /\ LET f == Top
           moves == generate_legal_moves_gomoku(heap[f.board])
       IN  IF f.depth = 0 \/ Len(moves) = 0
           THEN BaseCase(f, moves, V, det)
           ELSE /\ Continue([f EXCEPT !.moves = moves, !.pc = "loop",
                                       !.start = heap[f.board]])
                /\ ret' = NoRet
                /\ UNCHANGED evalTab
                /\ oracle' = NoOracle
    /\ UNCHANGED <<stack, debug, TIME_LIMIT, elapsed, entry, cands, FrontEnd>>
    /\ heap' = Collect(heap, stack', frames', selfBoard')

(* MinimaxBooleanAND, lines 617-621 *)
ANDTry ==
    /\ Running /\ Top.fn = "AND" /\ Top.pc = "loop" /\ Top.i <= Len(Top.moves)
    /\ Descend("OR")
    /\ UNCHANGED <<TIME_LIMIT, elapsed, evalTab, entry, cands, FrontEnd>>
    /\ oracle' = NoOracle

(* MinimaxBooleanAND, lines 623-639 *)
ANDWin(f, win0, col) == IF col # opposite_color(f.color) THEN FALSE ELSE win0

(* ANDPoints without the change of sign *)
ANDPointsRaw(f, col, points0) == points0

ANDPoints(f, col, points0) ==
    IF col # opposite_color(f.color) THEN 0 - points0 ELSE points0

ANDRecord(f, points) ==
    LET worst == IF points < f.worst_points THEN points ELSE f.worst_points
    IN  [f EXCEPT !.worst_points = worst,
                  !.beta = IF worst <= f.beta THEN points ELSE f.beta]

(* ANDRefuted returning without the call of undo() *)
ANDRefutedNoUndo(f, points) ==
    /\ stack' = stack
    /\ debug' = debug
    /\ Return(Tuple(FALSE, opposite_color(f.color), points))

(* MinimaxBooleanAND, lines 626-628: the child does not prove a win *)
ANDRefuted(f, points) ==
    /\ stack' = Front(stack)
    /\ debug' = debug - 1
    /\ Return(Tuple(FALSE, opposite_color(f.color), points))

ANDScore ==
    /\ Running /\ Top.fn = "AND" /\ Top.pc = "wait" /\ ret.kind = "tuple"
    /\ LET f == Top
           win == ANDWin(f, ret.win, ret.col)
           points == ANDPoints(f, ret.col, ret.points)
       IN  IF ~CanUndo THEN Raise
           ELSE IF ~win
           THEN ANDRefuted(f, points)
           ELSE /\ stack' = Front(stack)
                /\ debug' = debug - 1
                /\ Continue([Seen(f, ANDRecord(f, points), TRUE,
                                   IF ret.col = opposite_color(f.color)
                                   THEN ret.points ELSE 0 - ret.points)
                              EXCEPT !.board = Last(stack), !.i = f.i + 1,
                                     !.pc = "loop"])
                /\ ret' = NoRet
    /\ UNCHANGED <<TIME_LIMIT, elapsed, evalTab, entry, cands, FrontEnd>>
    /\ oracle' = NoOracle
    /\ heap' = Collect(heap, stack', frames', selfBoard')

(* MinimaxBooleanAND, line 645 *)
ANDReturn ==
    /\ Running /\ Top.fn = "AND" /\ Top.pc = "loop" /\ Top.i > Len(Top.moves)
    /\ Return(Tuple(TRUE, opposite_color(Top.color), Top.worst_points))
    /\ UNCHANGED <<stack, debug, TIME_LIMIT, elapsed, evalTab, entry,
                   cands, FrontEnd>>
    /\ oracle' = NoOracle
    /\ heap' = Collect(heap, stack', frames', selfBoard')

----------------------------------------------------------------------------
(* One call of Minimax(board, depth, color), or of one of the provers
   MinimaxBooleanOR / MinimaxBooleanAND(board, depth, color, alpha, beta) with a
   depth Minimax can hand down, on a
   copy (object 2) of any position (object 1), with any budget, entered with a
   snapshot (object 3) on the stack; the evaluator is unconstrained. *)
Calls == [fn : {"Minimax"}, depth : 1..MaxDepth]
             \cup [fn : {"OR", "AND"}, depth : 0..(MaxDepth - 1)]

Init ==
    /\ \E b \in Boards(MaxCells), call \in Calls :
          /\ heap = (1 :> b) @@ (2 :> b) @@ (3 :> b)
          /\ stack = <<3>>
          /\ debug = 1
          /\ frames = <<NewFrame(call.fn, 2, call.depth, b.current_player,
                                 NINFINITY, INFINITY)>>
    /\ TIME_LIMIT \in {0, DefaultTimeLimit}
    /\ ret = NoRet
    /\ elapsed = 0
    /\ evalTab = <<>>
    /\ oracle = NoOracle
    /\ entry = NoEntry
    /\ cands = NoCands
    /\ selfBoard = 1
    /\ cmd = "call"
    /\ ncmds = 0
    /\ out = NoOut
    /\ done = NoDone

Next ==
    \/ MinimaxStart
    \/ MinimaxTimeout
    \/ MinimaxTry
    \/ MinimaxScore
    \/ MinimaxReturn
    \/ ORStart(Verdicts, FALSE)
    \/ ORTry
    \/ ORScore
    \/ ORReturn
    \/ ANDStart(Verdicts, FALSE)
    \/ ANDTry
    \/ ANDScore
    \/ ANDReturn

Spec == Init /\ [][Next]_vars

----------------------------------------------------------------------------
(* The GTP front end *)
int_to_color(n) ==
    IF n = BLACK THEN "b" ELSE IF n = WHITE THEN "w"
    ELSE IF n = EMPTY THEN "e" ELSE "BORDER"

Idle == cmd = "idle" /\ frames = <<>> /\ ncmds < MaxCmds
SearchVars == <<elapsed, evalTab, oracle, entry, cands>>

(* GtpConnection.respond, lines 157-160; out counts the responses of one command *)
respond(response) ==
    out' = [n |-> IF cmd = "idle" THEN 1 ELSE out.n + 1,
            text |-> response.text, move |-> response.move]
Silent == out' = NoOut

(* timelimit_cmd, lines 378-385, and setGlobalTime, lines 509-511 *)
timelimit_cmd ==
    /\ Idle
    /\ \E seconds \in 0..MaxTime : TIME_LIMIT' = seconds
    /\ respond([text |-> "", move |-> None])
    /\ ncmds' = ncmds + 1
    /\ done' = NoDone
    /\ UNCHANGED <<heap, stack, debug, frames, ret, SearchVars, selfBoard, cmd>>

(* save_board_state, lines 390-391, and save_board, lines 498-501 *)
save_board_state ==
    /\ Idle
    /\ heap' = SavedHeap(selfBoard)
    /\ stack' = SavedStack
    /\ debug' = debug + 1
    /\ ncmds' = ncmds + 1
    /\ Silent
    /\ done' = NoDone
    /\ UNCHANGED <<TIME_LIMIT, frames, ret, SearchVars, selfBoard, cmd>>

(* undo_board going on with the board it has when the stack is empty *)
undo_board_quiet ==
    /\ Idle
    /\ debug' = debug - 1
    /\ ncmds' = ncmds + 1
    /\ Silent
    /\ IF CanUndo
       THEN /\ selfBoard' = Last(stack)
            /\ stack' = Front(stack)
       ELSE UNCHANGED <<selfBoard, stack>>
    /\ cmd' = cmd
    /\ done' = NoDone
    /\ UNCHANGED <<TIME_LIMIT, frames, ret, SearchVars>>
    /\ heap' = Collect(heap, stack', frames', selfBoard')

(* undo_board, lines 393-394, and undo, lines 503-507 *)
undo_board ==
    /\ Idle
    /\ debug' = debug - 1
    /\ ncmds' = ncmds + 1
    /\ Silent
    /\ IF CanUndo
       THEN /\ selfBoard' = Last(stack)
            /\ stack' = Front(stack)
            /\ cmd' = cmd
       ELSE /\ cmd' = "crashed"
            /\ UNCHANGED <<selfBoard, stack>>
    /\ done' = NoDone
    /\ UNCHANGED <<TIME_LIMIT, frames, ret, SearchVars>>
    /\ heap' = Collect(heap, stack', frames', selfBoard')

(* board_copy handing out the board itself *)
board_alias(h, b) == [heap |-> h, id |-> b]

(* self.board.copy(), lines 287 and 398: the heap with the copy, and the copy *)
board_copy(h, b) == [heap |-> Copy(h, b), id |-> NewId(h)]

(* minimax_solve, lines 396-398: the call of Minimax on a copy *)
minimax_solve ==
    /\ Idle
    /\ heap' = board_copy(heap, selfBoard).heap
    /\ frames' = <<NewFrame("Minimax", board_copy(heap, selfBoard).id, SolveDepth,
                            heap[selfBoard].current_player, NINFINITY, INFINITY)>>
    /\ ret' = NoRet
    /\ cmd' = "solve"
    /\ ncmds' = ncmds + 1
    /\ Silent
    /\ done' = IF done.cmd = "solve" THEN done ELSE NoDone
    /\ UNCHANGED <<stack, debug, TIME_LIMIT, SearchVars, selfBoard>>

(* the record of a finished search command: what Minimax was given, what it
   returned, whether go_engine.get_move was asked, what it answered, the move
   the command went on with, and whether the search command finished before it
   was the same command on the same position with the same colour and budget *)
Completed(name, asked, got, used) ==
    [cmd |-> name, board |-> entry.board,
     color |-> entry.color, limit |-> entry.limit,
     is_win |-> ret.is_win, move |-> ret.move,
     asked |-> asked, got |-> got, used |-> used,
     again |-> /\ done.cmd = name /\ done.board = entry.board
               /\ done.color = entry.color /\ done.limit = entry.limit]
Forget ==
    /\ elapsed' = 0
    /\ entry' = NoEntry
    /\ cands' = NoCands
    /\ UNCHANGED <<evalTab, oracle>>

(* SolveResponse answering NoWinFound with the letter of the colour to move *)
SolveResponseOwn(win, move, player) ==
    IF win = Timeout THEN [text |-> "unknown", move |-> None]
    ELSE IF win = Win THEN [text |-> int_to_color(player), move |-> move]
    ELSE IF win = Draw THEN [text |-> "draw", move |-> move]
    ELSE [text |-> int_to_color(player), move |-> None]

(* minimax_solve, lines 406-424: the response *)
SolveResponse(win, move, player) ==
    IF win = Timeout THEN [text |-> "unknown", move |-> None]
    ELSE IF win = Win THEN [text |-> int_to_color(player), move |-> move]
    ELSE IF win = Draw THEN [text |-> "draw", move |-> move]
    ELSE [text |-> int_to_color(opposite_color(player)), move |-> None]

minimax_solve_respond ==
    /\ cmd = "solve" /\ frames = <<>>
    /\ IF ret.kind = "pair" /\ ~(ret.is_win = Win /\ ret.move = None)
       THEN /\ respond(SolveResponse(ret.is_win, ret.move,
                                     heap[selfBoard].current_player))
            /\ done' = Completed("solve", FALSE, None, ret.move)
            /\ cmd' = "idle"
       ELSE /\ cmd' = "crashed"
            /\ UNCHANGED <<out, done>>
    /\ ret' = NoRet
    /\ Forget
    /\ UNCHANGED <<heap, stack, debug, TIME_LIMIT, frames, selfBoard, ncmds>>

(* genmove_cmd, lines 274-288: up to the call of Minimax on a copy *)
genmove_cmd ==
    /\ Idle
    /\ \E color \in Colors :
          LET ge == check_game_end_gomoku(heap[selfBoard])
          IN  IF ge[1]
              THEN /\ respond([text |-> IF ge[2] = color THEN "pass" ELSE "resign",
                               move |-> None])
                   /\ UNCHANGED <<heap, frames, cmd>>
              ELSE /\ heap' = board_copy(heap, selfBoard).heap
                   /\ frames' = <<NewFrame("Minimax", board_copy(heap, selfBoard).id,
                                           SolveDepth, color, NINFINITY, INFINITY)>>
                   /\ cmd' = "genmove"
                   /\ Silent
    /\ ret' = NoRet
    /\ ncmds' = ncmds + 1
    /\ done' = NoDone
    /\ UNCHANGED <<stack, debug, TIME_LIMIT, SearchVars, selfBoard>>

(* genmove_cmd, line 289: `if not is_win` *)
UsesEngine(is_win) == is_win = 0

(* genmove_cmd, lines 289-300: after Minimax has returned; got is the answer
   of go_engine.get_move, if it is asked *)
genmove_finish ==
    /\ cmd = "genmove" /\ frames = <<>>
    /\ IF ret.kind # "pair"
       THEN /\ cmd' = "crashed"
            /\ UNCHANGED <<heap, out, done>>
       ELSE \E got \in (1..Len(heap[selfBoard].cells)) \cup {PASS} :
              LET color == entry.color
                  asked == UsesEngine(ret.is_win)
                  move == IF asked THEN got ELSE ret.move
              IN  /\ asked \/ got = PASS
                  /\ done' = Completed("genmove", asked,
                                       IF asked THEN got ELSE None, move)
                  /\ cmd' = "idle"
                  /\ IF move = PASS
                     THEN /\ respond([text |-> "pass", move |-> None])
                          /\ heap' = heap
                     ELSE IF is_legal_gomoku(heap[selfBoard], move, color)
                     THEN /\ heap' = [heap EXCEPT ![selfBoard] =
                                         play_move_gomoku(@, move, color)]
                          /\ respond([text |-> "", move |-> move])
                     ELSE /\ respond([text |-> "illegal move", move |-> move])
                          /\ heap' = heap
    /\ ret' = NoRet
    /\ Forget
    /\ UNCHANGED <<stack, debug, TIME_LIMIT, frames, selfBoard, ncmds>>

InitGtp ==
    /\ \E b \in Boards(GtpCells) : heap = (1 :> b)
    /\ selfBoard = 1
    /\ stack = <<>>
    /\ debug = 0
    /\ TIME_LIMIT = DefaultTimeLimit
    /\ frames = <<>>
    /\ ret = NoRet
    /\ elapsed = 0
    /\ evalTab = <<>>
    /\ oracle = NoOracle
    /\ entry = NoEntry
    /\ cands = NoCands
    /\ cmd = "idle"
    /\ ncmds = 0
    /\ out = NoOut
    /\ done = NoDone

NextGtp ==
    \/ timelimit_cmd
    \/ save_board_state
    \/ undo_board
    \/ minimax_solve
    \/ minimax_solve_respond
    \/ genmove_cmd
    \/ genmove_finish
    \/ MinimaxStart
    \/ MinimaxTimeout
    \/ MinimaxTry
    \/ MinimaxScore
    \/ MinimaxReturn
    \/ ORStart(Verdicts, FALSE)
    \/ ANDStart(Verdicts, FALSE)
    \/ ANDTry
    \/ ANDScore
    \/ ANDReturn

SpecGtp == InitGtp /\ [][NextGtp]_vars

----------------------------------------------------------------------------
(* Successive solve commands, with an evaluator that is a function of the
   position (and scores a win 1 and anything else 0). *)
NextTwice ==
    \/ timelimit_cmd
    \/ minimax_solve
    \/ minimax_solve_respond
    \/ MinimaxStart
    \/ MinimaxTimeout
    \/ MinimaxTry
    \/ MinimaxScore
    \/ MinimaxReturn
    \/ ORStart(DetVerdicts, TRUE)
    \/ ANDStart(DetVerdicts, TRUE)
    \/ ANDTry
    \/ ANDScore
    \/ ANDReturn

SpecTwice == InitGtp /\ [][NextTwice]_vars

----------------------------------------------------------------------------
(* The push and undo commands between solve commands, with the evaluator of
   SpecTwice. *)
NextStack ==
    \/ save_board_state
    \/ undo_board
    \/ minimax_solve
    \/ minimax_solve_respond
    \/ MinimaxStart
    \/ MinimaxTimeout
    \/ MinimaxTry
    \/ MinimaxScore
    \/ MinimaxReturn
    \/ ORStart(DetVerdicts, TRUE)
    \/ ANDStart(DetVerdicts, TRUE)
    \/ ANDTry
    \/ ANDScore
    \/ ANDReturn

SpecStack == InitGtp /\ [][NextStack]_vars

----------------------------------------------------------------------------
(* The calls of Spec with an evaluator whose scores also lie above the value
   worst_points starts from. *)
WideScores == {-1, 0, 1, WorstInit + 1}
WideVerdicts == [win : BOOLEAN, col : Colors, points : WideScores]

NextWide ==
    \/ MinimaxStart
    \/ MinimaxTimeout
    \/ MinimaxTry
    \/ MinimaxScore
    \/ MinimaxReturn
    \/ ORStart(WideVerdicts, FALSE)
    \/ ORTry
    \/ ORScore
    \/ ORReturn
    \/ ANDStart(WideVerdicts, FALSE)
    \/ ANDTry
    \/ ANDScore
    \/ ANDReturn

SpecWide == Init /\ [][NextWide]_vars

----------------------------------------------------------------------------
(* The search commands solve and genmove between push and pop commands; the
   evaluator scores a win 1 and anything else 0, and nothing else is assumed of
   it. *)
NextBoard ==
    \/ save_board_state
    \/ undo_board
    \/ minimax_solve
    \/ minimax_solve_respond
    \/ genmove_cmd
    \/ genmove_finish
    \/ MinimaxStart
    \/ MinimaxTimeout
    \/ MinimaxTry
    \/ MinimaxScore
    \/ MinimaxReturn
    \/ ORStart(DetVerdicts, FALSE)
    \/ ANDStart(DetVerdicts, FALSE)
    \/ ANDTry
    \/ ANDScore
    \/ ANDReturn

SpecBoard == InitGtp /\ [][NextBoard]_vars

----------------------------------------------------------------------------
(* Properties *)

(* the Minimax call has returned to its caller *)
Returned == frames = <<>> /\ ret.kind = "pair"
TimedOut == ret.is_win = Timeout
LostOnEntry ==
    check_game_end_gomoku(entry.board) = <<TRUE, opposite_color(entry.color)>>
(* the Minimax call has gone through all its candidates *)
Exhausted == Returned /\ ~TimedOut /\ ~LostOnEntry

(* C1 - Stack balance: when a Minimax call has returned, however it returned,
   the snapshot stack holds the same objects with the same contents as when the
   call was entered, and as many "Stored board" as "Undid board" entries were
   logged. *)
StackBalance ==
    Returned =>
        /\ stack = entry.stack
        /\ \A k \in 1..Len(stack) : heap[stack[k]] = entry.heap[entry.stack[k]]
        /\ debug = entry.debug

(* a call that found a win after trying several candidates at depth 2 or more,
   entered with a snapshot already on the stack *)
StackBalanceWitness ==
    /\ Returned /\ ret.is_win = Win
    /\ entry.stack # <<>> /\ entry.depth >= 2 /\ cands.tried >= 2

(* C2, as claimed - with the budget 0, Minimax returns Timeout with no move for
   every position, before any candidate is started. *)
TimeoutForEveryPosition ==
    (Returned /\ entry.limit = 0) => (ret = Pair(Timeout, None) /\ cands.started = 0)

(* C2, amended - with the budget 0, Minimax returns Timeout with no move for
   every position that has a legal move and is not already won by the opponent
   of the colour to move; it does so at the first reading of the clock, before
   any snapshot is pushed or any candidate started.  For the other positions it
   returns NoWinFound with no move. *)
TimeoutImmediacy ==
    (Returned /\ entry.limit = 0) =>
        /\ cands.started = 0 /\ stack = entry.stack /\ debug = entry.debug
        /\ IF entry.moves # <<>> /\ ~LostOnEntry
           THEN ret = Pair(Timeout, None) /\ cands.checks = 1
           ELSE ret = Pair(NoWinFound, None) /\ cands.checks = 0

TimeoutImmediacyWitness ==
    /\ Returned /\ entry.limit = 0 /\ TimedOut
    /\ Len(entry.moves) >= 2

(* C3 - Draw precedence: when Minimax has gone through all its candidates
   without a timeout and without recording a win, and some candidate's result
   carried the score 0, it returns Draw with the first candidate in enumeration
   order whose score was 0. *)
DrawPrecedence ==
    (Exhausted /\ ret.is_win # Win /\ cands.zeros >= 1) =>
        ret = Pair(Draw, cands.firstZero)

(* two candidates scored 0 and no win was recorded *)
DrawPrecedenceWitness ==
    Exhausted /\ ret.is_win = Draw /\ cands.zeros >= 2

(* C4 - Win tie-break: when Minimax has gone through all its candidates without
   a timeout and several candidates' results had win set, it returns Win with
   the earliest candidate among those whose winning result carries the largest
   score. *)
WinTieBreak ==
    (Exhausted /\ cands.wins >= 2) => ret = Pair(Win, cands.top)

(* two winning results carried the same, largest, score and Win was returned *)
WinTieBreakWitness ==
    Exhausted /\ ret.is_win = Win /\ cands.wins >= 2 /\ cands.ties >= 2

(* C5 - Win detection: when Minimax has gone through all its candidates without
   a timeout, on a position not already won by the opponent, and some
   candidate's result had win set for the colour to move, it returns Win with a
   move whose result had win set - whatever score that result carried. *)
WinDetection ==
    (Exhausted /\ cands.anyOwnWin) =>
        (ret.is_win = Win /\ ret.move # None /\ cands.bestWin)

(* a win for the colour to move that carried a score of 0 or less *)
WinDetectionWitness ==
    Exhausted /\ cands.anyOwnWin /\ cands.top # None /\ cands.topPoints <= 0

(* C6 - Already-decided position: on a position already won by the opponent of
   the colour to move, Minimax returns NoWinFound with no move, having read the
   clock zero times, pushed no snapshot and started no candidate, whatever the
   budget. *)
AlreadyDecided ==
    (Returned /\ LostOnEntry) =>
        /\ ret = Pair(NoWinFound, None)
        /\ cands.checks = 0 /\ cands.started = 0
        /\ stack = entry.stack /\ debug = entry.debug

(* such a position with a legal move left and the budget 0 *)
AlreadyDecidedWitness ==
    Returned /\ LostOnEntry /\ entry.limit = 0 /\ entry.moves # <<>>

(* C7 - Timeout discards partial results: when the clock read at the head of
   Minimax's loop is at or beyond the budget, that step returns Timeout with no
   move, whatever has been recorded, and pushes, plays and starts nothing; a
   step of a prover reads no clock and returns no result of Minimax, and
   Timeout is returned by no other step than the reading at the loop head. *)
TimeoutDiscardsPartial ==
    [][ /\ ( /\ Running /\ Top.fn = "Minimax" /\ Top.pc = "loop"
             /\ Top.i <= Len(Top.moves)
             /\ elapsed' >= TIME_LIMIT )
           => /\ ret' = Pair(Timeout, None)
              /\ frames' = Front(frames)
              /\ stack' = stack /\ debug' = debug
              /\ cands'.started = cands.started
              /\ \A id \in DOMAIN heap' : heap'[id] = heap[id]
        /\ (Running /\ Top.fn # "Minimax")
           => /\ elapsed' = elapsed
              /\ cands'.checks = cands.checks
              /\ ret'.kind # "pair"
        /\ (ret' = Pair(Timeout, None) /\ ret # ret')
           => /\ Running /\ Top.fn = "Minimax" /\ Top.pc = "loop"
              /\ cands'.checks = cands.checks + 1
      ]_vars

(* Timeout returned after an earlier candidate had been recorded as a win *)
TimeoutDiscardsPartialWitness ==
    /\ Returned /\ TimedOut /\ ret.move = None
    /\ cands.tried >= 1 /\ cands.bestWin /\ cands.topPoints > 0

(* C8 - No-moves base case: a prover entered on a position without legal moves
   returns, at any depth, the verdict of StatisticallyEvaluate(False) for that
   position; entered at depth 0 on a position with legal moves it returns the
   verdict of StatisticallyEvaluate(); either way in one step that pushes no
   snapshot, changes no board and calls no prover. *)
BaseCaseVerdict ==
    [][ (Running /\ Top.fn \in {"OR", "AND"} /\ Top.pc = "entry")
        => LET moves == generate_legal_moves_gomoku(heap[Top.board])
               base == /\ oracle'.board = heap[Top.board]
                       /\ oracle'.fn = Top.fn /\ oracle'.depth = Top.depth
                       /\ ret' = Tuple(oracle'.verdict.win, oracle'.verdict.col,
                                       oracle'.verdict.points)
                       /\ frames' = Front(frames)
                       /\ stack' = stack /\ debug' = debug
                       /\ \A id \in DOMAIN heap' : heap'[id] = heap[id]
           IN  /\ moves = <<>> => (base /\ oracle'.arg = "False")
               /\ (moves # <<>> /\ Top.depth = 0) => (base /\ oracle'.arg = "default")
      ]_vars

(* MinimaxBooleanOR, entered at a positive depth on a full board, has returned
   the verdict of StatisticallyEvaluate(False) *)
BaseCaseVerdictWitness ==
    /\ oracle.fn = "OR" /\ oracle.depth > 0 /\ oracle.arg = "False"
    /\ generate_legal_moves_gomoku(oracle.board) = <<>>
    /\ ret = Tuple(oracle.verdict.win, oracle.verdict.col, oracle.verdict.points)

(* C9, as claimed - two solve commands in succession with the same budget (no
   command in between changes the position) give the same outcome code and the
   same move. *)
SolveTwiceSame ==
    [][ ( /\ cmd = "solve" /\ cmd' = "idle"
          /\ done.cmd = "solve" /\ done'.limit = done.limit )
        => (done'.is_win = done.is_win /\ done'.move = done.move)
      ]_vars

(* C9, amended - two solve commands in succession with the same budget give the
   same outcome code and the same move whenever both run out of time or neither
   does; the clock alone decides whether a call runs out of time, so one of the
   two may return Timeout and the other not. *)
SolveTwiceSameUnlessTimeout ==
    [][ ( /\ cmd = "solve" /\ cmd' = "idle"
          /\ done.cmd = "solve" /\ done'.limit = done.limit
          /\ (done'.is_win = Timeout) <=> (done.is_win = Timeout) )
        => (done'.is_win = done.is_win /\ done'.move = done.move)
      ]_vars

(* a second solve of the same position with the same budget has found the win *)
SolveTwiceWitness ==
    /\ cmd = "idle" /\ done.cmd = "solve" /\ done.again
    /\ done.is_win = Win /\ done.move # None

(* C10 - Fallback to the heuristic mover: when Minimax has returned NoWinFound
   or Timeout to genmove, go_engine.get_move is asked and the move genmove goes
   on with is its answer. *)
GenmoveFallback ==
    (done.cmd = "genmove" /\ done.is_win \in {NoWinFound, Timeout}) =>
        (done.asked /\ done.used = done.got)

(* genmove after Minimax ran out of time on a position with a legal move *)
GenmoveFallbackWitness ==
    /\ done.cmd = "genmove" /\ done.is_win = Timeout
    /\ generate_legal_moves_gomoku(done.board) # <<>>

(* C11 - Rendered results: a solve command writes exactly one response, and the
   outcome of Minimax determines it: Timeout gives "unknown"; Win gives the
   letter of the colour to move and the move; Draw gives "draw" and the move;
   NoWinFound gives the letter of the opponent and no move.  Win and Draw come
   with a move, NoWinFound and Timeout with none. *)
RenderedResult ==
    (cmd = "idle" /\ done.cmd = "solve") =>
        LET own == IF done.color = BLACK THEN "b" ELSE "w"
            other == IF done.color = BLACK THEN "w" ELSE "b"
        IN  /\ out.n = 1
            /\ done.is_win \in {NoWinFound, Draw, Win, Timeout}
            /\ done.is_win = Timeout =>
                  (done.move = None /\ out.text = "unknown" /\ out.move = None)
            /\ done.is_win = Win =>
                  (done.move # None /\ out.text = own /\ out.move = done.move)
            /\ done.is_win = Draw =>
                  (done.move # None /\ out.text = "draw" /\ out.move = done.move)
            /\ done.is_win = NoWinFound =>
                  (done.move = None /\ out.text = other /\ out.move = None)

(* a solve that found no win and answered with the opponent's letter *)
RenderedResultWitness ==
    /\ cmd = "idle" /\ done.cmd = "solve" /\ done.is_win = NoWinFound
    /\ generate_legal_moves_gomoku(done.board) # <<>> /\ out.n = 1

(* a step in which undo() is called: the only steps that log "Undid board" *)
Undoes == debug' = debug - 1

(* C12, as claimed - undo() on an empty stack does not raise: the command that
   called it goes on. *)
UndoUnderflowGoesOn ==
    [][ (cmd = "idle" /\ Undoes /\ stack = <<>>) => cmd' # "crashed" ]_vars

(* C12, amended - undo() on an empty stack logs and then raises (IndexError of
   stack.pop()): the stack stays empty, nothing is returned, undo_board leaves
   the front end's board as it is and the error ends the command loop.  On a
   non-empty stack it removes the last entry and returns it: undo_board makes
   it the front end's board, a search frame that goes on makes it its board. *)
UndoUnderflowRaises ==
    [][ Undoes =>
          IF stack = <<>>
          THEN /\ stack' = <<>>
               /\ IF Running THEN ret'.kind = "error" /\ frames' = <<>>
                  ELSE cmd' = "crashed" /\ selfBoard' = selfBoard
          ELSE /\ stack' = SubSeq(stack, 1, Len(stack) - 1)
               /\ IF Running
                  THEN Len(frames') = Len(frames) =>
                          frames'[Len(frames')].board = stack[Len(stack)]
                  ELSE /\ cmd' = "idle"
                       /\ selfBoard' = stack[Len(stack)]
                       /\ heap'[selfBoard'] = heap[stack[Len(stack)]]
      ]_vars

(* a push, an undo, and a second undo that found the stack empty *)
UndoUnderflowWitness ==
    cmd = "crashed" /\ stack = <<>> /\ frames = <<>> /\ ncmds = 3 /\ debug = -1

(* the running call is a prover that has just received the result of the
   candidate it was exploring *)
Received(fn) ==
    Running /\ Top.fn = fn /\ Top.pc = "wait" /\ ret.kind = "tuple" /\ stack # <<>>

(* C13 - AND-node short-circuit: when an AND node receives, for the candidate
   it is exploring, a result that from its point of view is not a win (win not
   set, or a colour other than the opponent of the node's colour), its next
   step returns (False, opponent of the node's colour, the score of that result
   from its point of view), having popped the snapshot pushed for that
   candidate; the frame is gone, so no later candidate is pushed or played. *)
ANDShortCircuit ==
    [][ Received("AND") =>
          LET own == ret.col = opposite_color(Top.color)
              points == IF own THEN ret.points ELSE 0 - ret.points
          IN  ~(own /\ ret.win) =>
                 /\ ret' = Tuple(FALSE, opposite_color(Top.color), points)
                 /\ frames' = Front(frames)
                 /\ stack' = Front(stack) /\ debug' = debug - 1
                 /\ Top.snap = Last(stack)
      ]_vars

(* an AND node with two candidates, below Minimax, has returned not-a-win with
   a score it negated; only Minimax's snapshot is left above the caller's *)
ANDShortCircuitWitness ==
    /\ Running /\ Top.fn = "Minimax" /\ Top.pc = "wait" /\ entry.depth = 2
    /\ ret.kind = "tuple" /\ ~ret.win /\ ret.points < -1
    /\ Len(generate_legal_moves_gomoku(entry.board)) >= 3
    /\ Len(stack) = Len(entry.stack) + 1

(* the running call is a prover that has received the results of all its
   candidates *)
Finishing(fn) ==
    Running /\ Top.fn = fn /\ Top.pc = "loop" /\ Top.i > Len(Top.moves)

(* C14 - AND-node exhaustion: an AND node that has received a win, from its
   point of view, for every one of its candidates returns (True, opponent of
   the node's colour, s) with s the least of the scores of those results taken
   from its point of view. *)
ANDExhaustion ==
    [][ Finishing("AND") =>
          ret' = Tuple(TRUE, opposite_color(Top.color), Top.lo) ]_vars

(* an AND node has returned a win with the score worst_points starts from *)
ANDExhaustionWitness ==
    /\ Running /\ Top.pc = "wait" /\ Top.fn \in {"Minimax", "OR"}
    /\ ret.kind = "tuple" /\ ret.win /\ ret.points = WorstInit

(* C15 - OR-node score: an OR node that has received the results of all its
   candidates returns its own colour and, as score, the largest of the scores
   of those results taken from its point of view (negated when the result names
   another colour), also when all of them are negative. *)
ORScoreIsMaximum ==
    [][ Finishing("OR") =>
          (ret'.kind = "tuple" /\ ret'.col = Top.color /\ ret'.points = Top.hi)
      ]_vars

(* an OR node has received negative scores for its two candidates *)
ORScoreIsMaximumWitness ==
    Finishing("OR") /\ Top.i = 3 /\ Top.hi < 0 /\ Top.best_points = 0

(* C16 - OR node has no short-circuit: an OR node entered at a depth above 0 on
   a position with legal moves goes through the legal moves in enumeration
   order, starting with the first; at the head of its loop, while a move is
   left, its only step pushes a snapshot, plays that move on its board and
   calls the AND node, also when an earlier move has proved a win; on the
   result it pops one snapshot and goes on to the next move; it returns only
   after the last move, and the flag it returns is true exactly when the result
   of some move, seen from its colour, proved a win. *)
ORNoShortCircuit ==
    [][ (Running /\ Top.fn = "OR") =>
          LET f == Top
              n == Len(frames)
              legal == generate_legal_moves_gomoku(heap[f.board])
          IN  /\ (f.pc = "entry" /\ f.depth > 0 /\ legal # <<>>)
                 => /\ Len(frames') = n
                    /\ frames'[n].moves = legal /\ frames'[n].i = 1
                    /\ frames'[n].pc = "loop" /\ stack' = stack
              /\ (f.pc = "loop" /\ f.i <= Len(f.moves))
                 => /\ Len(frames') = n + 1
                    /\ frames'[n + 1].fn = "AND" /\ frames'[n + 1].board = f.board
                    /\ frames'[n].i = f.i /\ frames'[n].moves = f.moves
                    /\ Len(stack') = Len(stack) + 1
                    /\ heap'[Last(stack')] = heap[f.board]
                    /\ heap'[f.board] =
                          play_move_gomoku(heap[f.board], f.moves[f.i], f.color)
              /\ (f.pc = "wait" /\ ret.kind = "tuple" /\ stack # <<>>)
                 => /\ Len(frames') = n
                    /\ frames'[n].i = f.i + 1 /\ frames'[n].moves = f.moves
                    /\ frames'[n].pc = "loop"
                    /\ stack' = Front(stack)
              /\ (f.pc = "loop" /\ f.i > Len(f.moves))
                 => /\ frames' = Front(frames)
                    /\ ret'.kind = "tuple" /\ ret'.win = f.won
      ]_vars

(* the AND node of a later move has been called after the result of an earlier
   move had proved a win *)
ORNoShortCircuitWitness ==
    /\ Len(frames) >= 2 /\ Top.fn = "AND" /\ Top.pc = "entry"
    /\ frames[Len(frames) - 1].fn = "OR"
    /\ frames[Len(frames) - 1].won /\ frames[Len(frames) - 1].i >= 2

(* C17 - Restore per candidate: in Minimax and in every OR and AND node, the
   board at the head of the loop has the contents it had when the node was
   entered, so every candidate is played on those contents; while a candidate
   is explored the snapshot saved for it holds those contents, and the position
   handed to the child is those contents with that one move played. *)
RestorePerCandidate ==
    \A k \in 1..Len(frames) :
        LET f == frames[k]
        IN  /\ f.pc = "loop" => heap[f.board] = f.start
            /\ f.pc = "wait" =>
                  /\ f.snap \in DOMAIN heap /\ heap[f.snap] = f.start
                  /\ (k < Len(frames) /\ frames[k + 1].pc = "entry")
                     => heap[frames[k + 1].board] =
                           play_move_gomoku(f.start, f.moves[f.i], f.color)

(* Minimax is at its second candidate or later, the AND node below it at its
   second candidate, after the OR node of its first candidate has returned, and
   the OR node of the second candidate has been called *)
RestorePerCandidateWitness ==
    /\ Len(frames) = 3 /\ frames[1].fn = "Minimax" /\ frames[1].i >= 2
    /\ frames[2].fn = "AND" /\ frames[2].i = 2 /\ frames[2].pc = "wait"
    /\ Top.fn = "OR" /\ Top.pc = "entry"
    /\ heap[frames[2].snap] = frames[2].start
    /\ heap[frames[1].snap] = frames[1].start

(* the frames whose candidate is being explored *)
Waiting == {k \in 1..Len(frames) : frames[k].pc = "wait"}

(* C18 - Snapshot isolation and LIFO: during a search no entry of the snapshot
   stack is the object any frame of Minimax or of a prover has as its board
   (a popped snapshot that has become a frame's board is no longer on the
   stack); the topmost entries of the stack are, in call order, the snapshots
   the frames exploring a candidate pushed for that candidate, so the pop of a
   frame returns the snapshot that frame pushed, and the entries pushed before
   the search stay under them. *)
SnapshotIsolationLIFO ==
    Running =>
        LET w == Cardinality(Waiting)
        IN  /\ \A k \in 1..Len(stack), j \in 1..Len(frames) :
                  stack[k] # frames[j].board
            /\ \A k, l \in 1..Len(stack) : k # l => stack[k] # stack[l]
            /\ Waiting = 1..w
            /\ Len(stack) >= w
            /\ \A j \in 1..w : stack[Len(stack) - w + j] = frames[j].snap
            /\ (Top.pc = "wait" /\ ret.kind = "tuple") => Last(stack) = Top.snap

(* two frames are exploring a candidate above a snapshot pushed before the
   search, and the board of the first is a snapshot it popped earlier *)
SnapshotIsolationLIFOWitness ==
    /\ Len(frames) = 3 /\ Len(stack) = 3
    /\ frames[1].pc = "wait" /\ frames[2].pc = "wait" /\ Top.pc = "entry"
    /\ frames[1].i >= 2 /\ frames[2].i >= 2
    /\ stack[2] = frames[1].snap /\ stack[3] = frames[2].snap

(* C19 - Win is for the side to move: when Minimax has returned Win with a
   move, the prover's result for the position after that move named the colour
   to move as the winner; a result that names the opponent is not recorded as a
   win. *)
WinForSideToMove ==
    (Returned /\ ret.is_win = Win) =>
        (ret.move # None /\ cands.bestWin /\ cands.bestOwn)

(* Minimax, called with the depth the front end uses, has returned Win with a
   move whose result had win set and named the opponent *)
WinForSideToMoveWitness ==
    /\ Returned /\ ret.is_win = Win /\ ret.move # None
    /\ entry.depth = SolveDepth /\ cands.bestWin /\ ~cands.bestOwn

(* C20 - The search never touches the game board: from the start of the search
   of a solve or genmove command up to its answer the front end's board has the
   stones and the player to move it had when the command began; after solve,
   whatever the outcome, it still has them; after genmove it has them, or
   differs by the one stone of the colour asked for on the empty point genmove
   reports, with the turn passed to the other colour. *)
SearchLeavesBoard ==
    /\ (cmd \in {"solve", "genmove"} /\ entry # NoEntry)
       => heap[selfBoard] = entry.board
    /\ (cmd = "idle" /\ done.cmd = "solve")
       => heap[selfBoard] = done.board
    /\ (cmd = "idle" /\ done.cmd = "genmove")
       => \/ heap[selfBoard] = done.board
          \/ /\ out.move = done.used
             /\ done.used \in 1..Len(done.board.cells)
             /\ done.board.cells[done.used] = EMPTY
             /\ heap[selfBoard] =
                   [cells |-> [done.board.cells EXCEPT ![done.used] = done.color],
                    current_player |-> opposite_color(done.color)]

(* solve has answered a win after a search that tried two candidates, with a
   snapshot on the stack, and the board is as before *)
SearchLeavesBoardWitness ==
    /\ cmd = "idle" /\ done.cmd = "solve" /\ done.is_win = Win
    /\ stack # <<>> /\ heap[selfBoard] = done.board
    /\ Len(generate_legal_moves_gomoku(done.board)) >= 2

(* genmove has played the move Minimax found, and nothing else *)
GenmovePlaysOneMoveWitness ==
    /\ cmd = "idle" /\ done.cmd = "genmove" /\ done.is_win = Win
    /\ out.move = done.used /\ heap[selfBoard] # done.board

(* the entries the two stacks have in common, by position *)
Below(s, t) == 1..(IF Len(s) < Len(t) THEN Len(s) ELSE Len(t))

(* C21 - User push and undo survive searches: a push command puts a new copy
   of the front end's board on top of the stack; no step of any command changes
   an entry of the stack other than by pushing or popping at the top, or changes
   the contents of an entry that stays; a solve or genmove command never has
   fewer entries on the stack than when it began, keeps the entries it began
   with in place with their contents, and ends with exactly those entries,
   whatever the outcome; an undo command on a stack that is not empty makes the
   top entry, with the contents it holds, the front end's board.  So an undo
   after a push and any solve and genmove commands gives the board the contents
   that push saved. *)
PushUndoSurvivesSearch ==
    [][ /\ \A k \in Below(stack, stack') :
              stack'[k] = stack[k] /\ heap'[stack'[k]] = heap[stack[k]]
        /\ Len(stack') \in {Len(stack) - 1, Len(stack), Len(stack) + 1}
        /\ (cmd = "idle" /\ cmd' = "idle" /\ Len(stack') = Len(stack) + 1)
           => /\ Last(stack') \notin DOMAIN heap
              /\ heap'[Last(stack')] = heap[selfBoard]
              /\ selfBoard' = selfBoard /\ heap'[selfBoard] = heap[selfBoard]
        /\ (cmd = "idle" /\ cmd' \in {"solve", "genmove"}) => stack' = stack
        /\ (cmd \in {"solve", "genmove"} /\ entry' # NoEntry)
           => /\ Len(stack') >= Len(entry'.stack)
              /\ \A k \in 1..Len(entry'.stack) :
                    /\ stack'[k] = entry'.stack[k]
                    /\ heap'[stack'[k]] = entry'.heap[entry'.stack[k]]
        /\ (cmd \in {"solve", "genmove"} /\ cmd' = "idle")
           => (stack' = stack /\ (entry # NoEntry => stack = entry.stack))
        /\ (cmd = "idle" /\ cmd' = "idle" /\ Len(stack') = Len(stack) - 1)
           => /\ selfBoard' = Last(stack)
              /\ heap'[selfBoard'] = heap[Last(stack)]
      ]_vars

(* a search command begun above a pushed snapshot has run out of time after
   trying a candidate, and the stack holds that snapshot alone, with the
   contents of the board that was pushed *)
PushUndoSurvivesSearchWitness ==
    /\ cmd \in {"solve", "genmove"} /\ frames = <<>>
    /\ ret = Pair(Timeout, None) /\ cands.tried >= 1
    /\ Len(stack) = 1 /\ stack = entry.stack
    /\ heap[stack[1]] = heap[selfBoard]

====
